---- MODULE Spec2Model ----
(***************************************************************************)
(* Tool-interrupt / human-in-the-loop protocol of the icisk orchestrator   *)
(* agent: BaseAgentTool._run, the Tool Handler node, the Interrupt Handler *)
(* node with its four per-kind strategies, and the parent graph            *)
(* (chatbot, chatbot_update_messages).                                     *)
(*                                                                         *)
(* One conversation is modelled.  The language model is nondeterministic:  *)
(* every value it returns is drawn from a small set.                       *)
(***************************************************************************)
EXTENDS Integers, Sequences, FiniteSets, TLC

VARIABLES
    node,               \* the graph node that runs next
    messages,           \* parent graph state: messages channel
    node_params,        \* parent graph state: node_params channel
    sub_messages,       \* sub-flow graph state: messages channel
    sub_node_params,    \* sub-flow graph state: node_params channel
    execution_confirmed,\* per tool instance
    output_confirmed,   \* per tool instance
    output,             \* per tool instance
    next_id,            \* next fresh message id
    calls,              \* tool calls issued by the chatbot so far
    saves,              \* DBI.save_notebook calls during the current tool call
    executions,         \* tool-body entries during the current tool call
    last_run,           \* what the most recent BaseAgentTool._run did
    resolved,           \* the most recent Interrupt Handler step of the current call
    current_call,       \* name and id of the tool call the chatbot issued last
    round_trip,         \* a missing argument was supplied and only confirmations followed
    other,              \* a second conversation in the same process, at the ingestion sub-flow
    inference,          \* an argument set and the infer_args passes applied to it
    interrupt_nodes,    \* the interrupt nodes constructed so far
    tool_interupt_handlers  \* BaseToolInterruptNode.tool_interupt_handlers, a class attribute

vars == <<node, messages, node_params, sub_messages, sub_node_params,
          execution_confirmed, output_confirmed, output, next_id,
          calls, saves, executions, last_run, resolved, current_call, round_trip,
          other, inference, interrupt_nodes, tool_interupt_handlers>>

----------------------------------------------------------------------------
(* Bounds *)

MaxCalls == 1
MaxCount == 2
MaxPasses == 2

----------------------------------------------------------------------------
(* Names (common/names.py) and interrupt kinds *)

Null == "None"

CHATBOT == "chatbot"
CHATBOT_UPDATE_MESSAGES == "chatbot_update_messages"
END == "__end__"
FAILED == "__error__"

CDS_FORECAST_NOTEBOOK_TOOL == "cds_forecast_notebook_tool"
CODE_EDITOR_TOOL == "code_editor_tool"
BASE_AGENT_TOOL == "base_agent_tool"

Tools == {CDS_FORECAST_NOTEBOOK_TOOL, CODE_EDITOR_TOOL, BASE_AGENT_TOOL}

PROVIDE_ARGS == "PROVIDE_ARGS"
INVALID_ARGS == "INVALID_ARGS"
CONFIRM_ARGS == "CONFIRM_ARGS"
CONFIRM_OUTPUT == "CONFIRM_OUTPUT"

TYPE_ERROR == "TypeError"

BaseToolInterruptType == {PROVIDE_ARGS, INVALID_ARGS, CONFIRM_ARGS, CONFIRM_OUTPUT}

----------------------------------------------------------------------------
(* Argument schemas.  Values are abstract:                                 *)
(*   forecast_variables  "precip" an accepted alias, "glofas_bogus" glofas *)
(*                       together with a name that is no variable,         *)
(*                       "total_precipitation" the enum member,            *)
(*                       "precip_temp" two accepted aliases, "tp_t" and    *)
(*                       "t_tp" the two enum members in either order       *)
(*   area                "Italy" a place name (str), "bbox" a list of 4    *)
(*                       floats, "bbox3" a list of 3 floats                *)
(*   jupyter_notebook    "nb" a name without suffix, "nb.ipynb" with it,   *)
(*                       "auto.ipynb" the generated default name           *)
(*   source              "nb1" a notebook of the user in the database,     *)
(*                       "missing" a name the database does not hold       *)

args_schema(t) ==
    CASE t = CDS_FORECAST_NOTEBOOK_TOOL -> <<"forecast_variables", "area", "jupyter_notebook">>
      [] t = CODE_EDITOR_TOOL -> <<"source", "code_request">>
      [] OTHER -> <<"a", "b">>

Fields(t) == {args_schema(t)[i] : i \in 1..Len(args_schema(t))}

\* Field(...) without default: pydantic's is_required()
is_required(t, arg) ==
    CASE t = CDS_FORECAST_NOTEBOOK_TOOL -> arg \in {"forecast_variables", "area"}
      [] t = CODE_EDITOR_TOOL -> arg = "code_request"
      [] OTHER -> TRUE

\* Values the language model may put into a tool call or a reply mapping.
ArgValues(arg) ==
    CASE arg = "forecast_variables" -> {Null, "precip", "glofas_bogus"}
      [] arg = "area" -> {Null, "Italy", "bbox", "bbox3"}
      [] arg = "jupyter_notebook" -> {Null, "nb"}
      [] arg = "source" -> {Null, "nb1", "missing"}
      [] arg = "code_request" -> {Null, "req1", "req2"}
      [] arg = "a" -> {Null, "3"}
      [] OTHER -> {Null, "5"}

PartialArgs(K) == {f \in [K -> UNION {ArgValues(a) : a \in K}] : \A a \in K : f[a] \in ArgValues(a)}

\* The argument sets a tool call can carry.
ToolArgs(t) == PartialArgs(Fields(t))


EmptyArgs == [k \in {} |-> Null]

\* dict.update: per-key overwrite, keys of the mapping are added
update(args, m) == [k \in DOMAIN args \cup DOMAIN m |-> IF k \in DOMAIN m THEN m[k] ELSE args[k]]

----------------------------------------------------------------------------
(* Tool outputs *)

NoneOutput == [data_source |-> Null, notebook |-> Null, generated_code |-> Null]

\* What the language model can answer when asked for code, and for a bounding box.
GeneratedCodes == {"code1", "code2"}
LookupResults == {"bbox", "Italy"}

\* Notebooks of the user that DBI.notebook_by_name finds.
StoredNotebooks == {"nb1"}

----------------------------------------------------------------------------
(* BaseAgentTool *)

\* execution_confirmed / output_confirmed right after __init__
\* (the base tool is one constructed to skip both confirmations)
ConstructionFlags_confirmed(t) ==
    CASE t = CDS_FORECAST_NOTEBOOK_TOOL -> [execution_confirmed |-> TRUE, output_confirmed |-> TRUE]
      [] t = CODE_EDITOR_TOOL -> [execution_confirmed |-> TRUE, output_confirmed |-> FALSE]
      [] OTHER -> [execution_confirmed |-> TRUE, output_confirmed |-> TRUE]

ConstructionFlags(t) ==
    CASE t = CDS_FORECAST_NOTEBOOK_TOOL -> [execution_confirmed |-> FALSE, output_confirmed |-> TRUE]
      [] t = CODE_EDITOR_TOOL -> [execution_confirmed |-> TRUE, output_confirmed |-> FALSE]
      [] OTHER -> [execution_confirmed |-> TRUE, output_confirmed |-> TRUE]

\* check_required_args: the required arguments whose value is None
missing_args(t, tool_args) == {arg \in Fields(t) : is_required(t, arg) /\ tool_args[arg] = Null}

\* _set_args_validation_rules: per argument the rules in registration order
args_validation_rules(t, arg) ==
    CASE t = CDS_FORECAST_NOTEBOOK_TOOL /\ arg = "forecast_variables" -> <<"known_variables", "glofas_alone">>
      [] t = CDS_FORECAST_NOTEBOOK_TOOL /\ arg = "area" -> <<"bbox_of_four">>
      [] t = CODE_EDITOR_TOOL /\ arg = "source" -> <<"notebook_in_database">>
      [] OTHER -> <<>>

\* A mapping the language model extracted from a reply: some keys, each with a
\* value.  The human is asked for required arguments and for arguments a
\* validation rule rejected; replies name only those.
Mappings(t) ==
    UNION {PartialArgs(K) :
            K \in SUBSET {arg \in Fields(t) : is_required(t, arg) \/ args_validation_rules(t, arg) # <<>>}}

\* rule(**tool_args): the invalid reason, or None
rule(r, tool_args) ==
    CASE r = "known_variables" ->
            IF tool_args["forecast_variables"] = "glofas_bogus"
            THEN "Invalid forecast variables" ELSE Null
      [] r = "glofas_alone" ->
            IF tool_args["forecast_variables"] = "glofas_bogus"
            THEN "Invalid combination of variables" ELSE Null
      [] r = "bbox_of_four" ->
            IF tool_args["area"] = "bbox3" THEN "Invalid area coordinates" ELSE Null
      [] r = "notebook_in_database" ->
            IF tool_args["source"] \notin StoredNotebooks THEN "Invalid source" ELSE Null
      [] OTHER -> Null

\* The loop body of check_validation_rules for one argument: every rule is
\* evaluated and each non-null reason overwrites invalid_args[arg].
RECURSIVE invalid_reason(_, _, _, _)
invalid_reason(rules, i, tool_args, reason) ==
    IF i > Len(rules) THEN reason
    ELSE LET r == rule(rules[i], tool_args)
         IN  invalid_reason(rules, i + 1, tool_args, IF r # Null THEN r ELSE reason)

\* check_validation_rules: invalid_args
invalid_args(t, tool_args) ==
    LET reasons == [arg \in Fields(t) |-> invalid_reason(args_validation_rules(t, arg), 1, tool_args, Null)]
        bad == {arg \in Fields(t) : reasons[arg] # Null}
    IN  [arg \in bad |-> reasons[arg]]

\* infer_area: bounding_box_from_location_name then round_bounding_box
IsPlaceName(area) == area \in {"Italy"}
round_bounding_box(area) == IF area \in {"bbox", "bbox_r"} THEN "bbox_r" ELSE area
infer_area(area, lookup) == round_bounding_box(IF IsPlaceName(area) THEN lookup ELSE area)

\* list(set(forecast_variables)) on two members.  The order of the result is
\* the order of the slots of the set, which the hashes of the member names
\* fix for the life of a process: one member always first, or, when both
\* hash to the same slot, the insertion order kept or reversed.
SetOrders == {"tp_first", "t_first", "kept", "swapped"}

unique_variables(members, order) ==
    CASE order = "tp_first" -> "tp_t"
      [] order = "t_first" -> "t_tp"
      [] order = "swapped" -> IF members = "tp_t" THEN "t_tp" ELSE "tp_t"
      [] OTHER -> members

\* infer_forecast_variables: alias_to_enum then unique_variables
infer_forecast_variables(v, order) ==
    CASE v \in {"precip", "total_precipitation"} -> "total_precipitation"
      [] v \in {"precip_temp", "tp_t"} -> unique_variables("tp_t", order)
      [] v = "t_tp" -> unique_variables("t_tp", order)
      [] OTHER -> v

infer_jupyter_notebook(nb) ==
    CASE nb = Null -> "auto.ipynb"
      [] nb = "nb" -> "nb.ipynb"
      [] OTHER -> nb

\* infer_args: the arguments after every inference rule ran, in schema order
infer_args(t, tool_args, lookup, order) ==
    IF t = CDS_FORECAST_NOTEBOOK_TOOL
    THEN [tool_args EXCEPT !["forecast_variables"] = infer_forecast_variables(@, order),
                           !["area"] = infer_area(@, lookup),
                           !["jupyter_notebook"] = infer_jupyter_notebook(@)]
    ELSE tool_args

infer_execution_confirmed_kept(t, tool_args, ec) == ec

\* infer_area sets execution_confirmed = False when it looked a place name up
infer_execution_confirmed(t, tool_args, ec) ==
    IF t = CDS_FORECAST_NOTEBOOK_TOOL /\ IsPlaceName(tool_args["area"]) THEN FALSE ELSE ec

\* _execute: the tool body.  saved tells whether it called DBI.save_notebook.
execute_keeps_flag(t, tool_args, ec, oc, out, code) ==
    CASE t = CDS_FORECAST_NOTEBOOK_TOOL ->
            [output |-> [data_source |-> "auto.zarr", notebook |-> tool_args["jupyter_notebook"],
                         generated_code |-> Null],
             execution_confirmed |-> ec, output_confirmed |-> oc, saved |-> TRUE]
      [] t = CODE_EDITOR_TOOL ->
            [output |-> [data_source |-> Null, notebook |-> tool_args["source"],
                         generated_code |-> IF ~oc THEN code ELSE out.generated_code],
             execution_confirmed |-> ec, output_confirmed |-> FALSE, saved |-> oc]
      [] OTHER ->
            [output |-> NoneOutput, execution_confirmed |-> ec, output_confirmed |-> oc, saved |-> FALSE]

execute(t, tool_args, ec, oc, out, code) ==
    CASE t = CDS_FORECAST_NOTEBOOK_TOOL ->
            [output |-> [data_source |-> "auto.zarr", notebook |-> tool_args["jupyter_notebook"],
                         generated_code |-> Null],
             execution_confirmed |-> FALSE, output_confirmed |-> oc, saved |-> TRUE]
      [] t = CODE_EDITOR_TOOL ->
            [output |-> [data_source |-> Null, notebook |-> tool_args["source"],
                         generated_code |-> IF ~oc THEN code ELSE out.generated_code],
             execution_confirmed |-> ec, output_confirmed |-> FALSE, saved |-> oc]
      [] OTHER ->
            [output |-> NoneOutput, execution_confirmed |-> ec, output_confirmed |-> oc, saved |-> FALSE]

InterruptData(missing, invalid, args, out) ==
    [missing_args |-> missing, invalid_args |-> invalid, args |-> args, output |-> out]

NoData == InterruptData({}, EmptyArgs, EmptyArgs, NoneOutput)

controls_validity_first ==
    <<"check_validation_rules", "check_required_args", "infer_args", "confirm_args",
      "execute", "confirm_ouputs">>

\* The calls of _run, in program order: controls_before_execution, _execute,
\* controls_after_execution.
controls == <<"check_required_args", "check_validation_rules", "infer_args", "confirm_args",
              "execute", "confirm_ouputs">>

\* The state of one run: the tool's fields, the local tool_args, the interrupt
\* raised so far (or None), the calls entered, and what the language model
\* answers if the run asks it (lookup, code).
RunState(t, tool_args, ec, oc, out, lookup, code, order) ==
    [tool |-> t, tool_args |-> tool_args,
     execution_confirmed |-> ec, output_confirmed |-> oc, output |-> out,
     raised |-> Null, data |-> NoData, trace |-> <<>>,
     confirmed_at_check |-> FALSE, saved |-> FALSE,
     lookup |-> lookup, code |-> code, order |-> order]

check_required_args_keeps_flag(st) ==
    LET missing == missing_args(st.tool, st.tool_args)
    IN  IF missing # {}
        THEN [st EXCEPT !.raised = PROVIDE_ARGS,
                        !.data = InterruptData(missing, EmptyArgs, EmptyArgs, NoneOutput)]
        ELSE st

check_required_args(st) ==
    LET missing == missing_args(st.tool, st.tool_args)
    IN  IF missing # {}
        THEN [st EXCEPT !.execution_confirmed = FALSE, !.raised = PROVIDE_ARGS,
                        !.data = InterruptData(missing, EmptyArgs, EmptyArgs, NoneOutput)]
        ELSE st

check_validation_rules_passes(st) == st

check_validation_rules(st) ==
    LET invalid == invalid_args(st.tool, st.tool_args)
    IN  IF DOMAIN invalid # {}
        THEN [st EXCEPT !.execution_confirmed = FALSE, !.raised = INVALID_ARGS,
                        !.data = InterruptData({}, invalid, EmptyArgs, NoneOutput)]
        ELSE st

infer_args_step(st) ==
    [st EXCEPT !.tool_args = infer_args(st.tool, st.tool_args, st.lookup, st.order),
               !.execution_confirmed = infer_execution_confirmed(st.tool, st.tool_args, @)]

confirm_args_unchecked(st) == st

confirm_args(st) ==
    IF ~st.execution_confirmed
    THEN [st EXCEPT !.raised = CONFIRM_ARGS,
                    !.data = InterruptData({}, EmptyArgs, st.tool_args, NoneOutput)]
    ELSE [st EXCEPT !.confirmed_at_check = TRUE]

\* self.output = self._execute(**tool_args).  CodeEditorTool._execute reads
\* self.output['generated_code'] when output_confirmed is set: with output
\* still None that is a TypeError, which leaves _run.
execute_step(st) ==
    LET ex == execute(st.tool, st.tool_args, st.execution_confirmed, st.output_confirmed,
                      st.output, st.code)
    IN  IF st.tool = CODE_EDITOR_TOOL /\ st.output_confirmed /\ st.output = NoneOutput
        THEN [st EXCEPT !.raised = TYPE_ERROR]
        ELSE [st EXCEPT !.output = ex.output, !.execution_confirmed = ex.execution_confirmed,
                        !.output_confirmed = ex.output_confirmed, !.saved = ex.saved]

confirm_ouputs(st) ==
    IF ~st.output_confirmed
    THEN [st EXCEPT !.raised = CONFIRM_OUTPUT,
                    !.data = InterruptData({}, EmptyArgs, st.tool_args, st.output)]
    ELSE st

call(c, st) ==
    CASE c = "check_required_args" -> check_required_args(st)
      [] c = "check_validation_rules" -> check_validation_rules(st)
      [] c = "infer_args" -> infer_args_step(st)
      [] c = "confirm_args" -> confirm_args(st)
      [] c = "execute" -> execute_step(st)
      [] OTHER -> confirm_ouputs(st)

\* Run the calls one after the other; an interrupt raised by one ends the run.
RECURSIVE run_from(_, _, _)
run_from(cs, i, st) ==
    IF i > Len(cs) \/ st.raised # Null THEN st
    ELSE run_from(cs, i + 1, call(cs[i], [st EXCEPT !.trace = Append(@, cs[i])]))

\* BaseAgentTool._run
run(t, tool_args, ec, oc, out, lookup, code, order) ==
    run_from(controls, 1, RunState(t, tool_args, ec, oc, out, lookup, code, order))

NoRun == RunState(Null, EmptyArgs, FALSE, FALSE, NoneOutput, Null, Null, Null)

Entered(r, c) == \E i \in 1..Len(r.trace) : r.trace[i] = c

----------------------------------------------------------------------------
(* Conversation state: BaseGraphState (messages with the add_messages      *)
(* reducer, node_params overwritten by each update)                        *)

NoCall == [name |-> Null, args |-> EmptyArgs, id |-> 0]

Message(id, type, tool_call, name, content, tool_call_id) ==
    [id |-> id, type |-> type, tool_calls |-> tool_call, name |-> name,
     content |-> content, tool_call_id |-> tool_call_id]

HumanMessage(id) == Message(id, "human", NoCall, Null, NoneOutput, 0)
AIMessage(id, tool_call) == Message(id, "ai", tool_call, Null, NoneOutput, 0)
SystemMessage(id) == Message(id, "system", NoCall, Null, NoneOutput, 0)
RemoveMessage(id) == Message(id, "remove", NoCall, Null, NoneOutput, 0)

ToolMessage_uncorrelated(id, name, content, tool_call_id) == Message(id, "tool", NoCall, name, content, 0)

\* tool_response_message
ToolMessage(id, name, content, tool_call_id) == Message(id, "tool", NoCall, name, content, tool_call_id)

HasId(msgs, id) == \E i \in 1..Len(msgs) : msgs[i].id = id

\* add_messages for one message: a RemoveMessage deletes the message with its
\* id, a message whose id is present replaces it in place, any other is appended.
add_message(left, m) ==
    IF m.type = "remove"
    THEN SelectSeq(left, LAMBDA x : x.id # m.id)
    ELSE IF HasId(left, m.id)
    THEN [i \in 1..Len(left) |-> IF left[i].id = m.id THEN m ELSE left[i]]
    ELSE Append(left, m)

RECURSIVE add_messages(_, _)
add_messages(left, right) ==
    IF right = <<>> THEN left
    ELSE add_messages(add_message(left, Head(right)), Tail(right))

EmptyParams == [k \in {} |-> Null]

\* node names of the sub-flow whose registry holds tool t
tool_handler_node_name(t) ==
    CASE t = CDS_FORECAST_NOTEBOOK_TOOL -> "cds_ingestor_tool_handler"
      [] t = CODE_EDITOR_TOOL -> "code_editor_tool_handler"
      [] OTHER -> "base_tool_handler"

tool_interrupt_node_name(t) ==
    CASE t = CDS_FORECAST_NOTEBOOK_TOOL -> "cds_ingestor_tool_interrupt"
      [] t = CODE_EDITOR_TOOL -> "code_editor_tool_interrupt"
      [] OTHER -> "base_tool_interrupt"

\* self.tool_interrupt_node_name of the Tool Handler node h
interrupt_node_of(h) == tool_interrupt_node_name(CHOOSE t \in Tools : tool_handler_node_name(t) = h)

tools_any(h) == Tools

\* self.tools of the Tool Handler node h: the registry of its sub-flow
tools(h) == {t \in Tools : tool_handler_node_name(t) = h}

HandlerNodes == {tool_handler_node_name(t) : t \in Tools}
InterruptNodes == {tool_interrupt_node_name(t) : t \in Tools}

\* state["messages"][-1] and its tool_calls[-1]
LastMessage(msgs) == msgs[Len(msgs)]

\* The pending tool-call message of the conversation, if any: an AI message
\* with a tool call that no tool message answers.
PendingCalls(msgs) ==
    {i \in 1..Len(msgs) :
        /\ msgs[i].type = "ai" /\ msgs[i].tool_calls # NoCall
        /\ ~\E j \in 1..Len(msgs) : msgs[j].type = "tool" /\ msgs[j].tool_call_id = msgs[i].tool_calls.id}

Min(a, b) == IF a < b THEN a ELSE b

----------------------------------------------------------------------------
(* Initial state: the graph was built, every tool constructed, and the     *)
(* human sent the first message.                                           *)

\* What the most recent Interrupt Handler step of the current call did.
\* kind: the interrupt kind it handled; reply: the class of the reply;
\* outcome: "resume", "abort" or "error"; unchanged: the pending call's
\* arguments are what they were before.
Resolution(kind, reply, outcome, unchanged) ==
    [kind |-> kind, reply |-> reply, outcome |-> outcome, unchanged |-> unchanged]

NoResolution == Resolution(Null, Null, Null, FALSE)

\* The second conversation: the node that runs next in it (None when there is
\* no second conversation), whether its human confirmed the arguments, whether
\* the tool body ran for it, and the result it got.
Other(n, confirmed, executed, result) ==
    [node |-> n, confirmed |-> confirmed, executed |-> executed, result |-> result]

NoOther == Other(Null, FALSE, FALSE, NoneOutput)

\* Its pending call: complete and valid, the area already a bounding box.
OtherCall ==
    [name |-> CDS_FORECAST_NOTEBOOK_TOOL,
     args |-> [forecast_variables |-> "precip", area |-> "bbox", jupyter_notebook |-> "nb"],
     id |-> 1]

InitConversation ==
    /\ node = CHATBOT
    /\ messages = <<HumanMessage(1)>>
    /\ node_params = EmptyParams
    /\ sub_messages = <<>>
    /\ sub_node_params = EmptyParams
    /\ execution_confirmed = [t \in Tools |-> ConstructionFlags(t).execution_confirmed]
    /\ output_confirmed = [t \in Tools |-> ConstructionFlags(t).output_confirmed]
    /\ output = [t \in Tools |-> NoneOutput]
    /\ next_id = 2
    /\ calls = 0
    /\ saves = 0
    /\ executions = 0
    /\ last_run = NoRun
    /\ resolved = NoResolution
    /\ current_call = [name |-> Null, id |-> 0]
    /\ round_trip = FALSE

\* An argument set under inference: the tool, the arguments and
\* execution_confirmed as they are now, the order list(set(...)) yields in
\* this process, and the number of infer_args calls made.
Inference(t, tool_args, ec, order, passes) ==
    [tool |-> t, tool_args |-> tool_args, execution_confirmed |-> ec, order |-> order,
     passes |-> passes]

NoInference == Inference(Null, EmptyArgs, FALSE, Null, 0)

\* The handler class each interrupt kind is dispatched to by default.
DefaultHandlers ==
    [kind \in BaseToolInterruptType |->
        CASE kind = PROVIDE_ARGS -> "BaseToolInterruptProvideArgsHandler"
          [] kind = INVALID_ARGS -> "BaseToolInterruptInvalidArgsHandler"
          [] kind = CONFIRM_ARGS -> "BaseToolInterruptArgsConfirmationHandler"
          [] OTHER -> "BaseToolInterruptOutputConfirmationHandler"]

\* custom_tool_interupt_handlers passed when the interrupt node n is constructed
custom_tool_interupt_handlers(n) ==
    IF n = tool_interrupt_node_name(CODE_EDITOR_TOOL)
    THEN [kind \in {CONFIRM_OUTPUT} |-> "CodeEditorToolInterruptOutputConfirmationHandler"]
    ELSE EmptyArgs

\* Every sub-flow module has been imported and its interrupt node constructed.
Imported ==
    /\ interrupt_nodes = InterruptNodes
    /\ tool_interupt_handlers =
            update(DefaultHandlers, custom_tool_interupt_handlers(tool_interrupt_node_name(CODE_EDITOR_TOOL)))

Init == InitConversation /\ other = NoOther /\ inference = NoInference /\ Imported

\* Two conversations; the second one is about to run the Tool Handler.
InitShared ==
    /\ InitConversation
    /\ other = Other(tool_handler_node_name(OtherCall.name), FALSE, FALSE, NoneOutput)
    /\ inference = NoInference
    /\ Imported

----------------------------------------------------------------------------
(* Interrupt handlers.  A reply is what the language model made of the     *)
(* human's answer: None, a mapping, True / False, or text that             *)
(* ast.literal_eval rejects (ask_llm then returns the text itself).        *)

Reply(class, m) == [class |-> class, m |-> m]

\* llm_out.content: text that ast.literal_eval accepts (literal is its value)
\* or rejects.
Content(parses, literal) == [parses |-> parses, literal |-> literal]

\* What the language model can write when asked for a mapping, for
\* True / False / None, and for the updated arguments.
ArgContents(t) ==
    {Content(TRUE, Reply("none", EmptyArgs)), Content(FALSE, Reply("raw", EmptyArgs))}
        \cup {Content(TRUE, Reply("mapping", m)) : m \in Mappings(t)}

ConfirmationContents ==
    {Content(TRUE, Reply("none", EmptyArgs)), Content(TRUE, Reply("true", EmptyArgs)),
     Content(TRUE, Reply("false", EmptyArgs)), Content(FALSE, Reply("raw", EmptyArgs))}

\* ask_llm: with eval_output the literal value of the text; the except branch
\* passes, and the text itself is returned.
ask_llm(content, eval_output) ==
    IF eval_output /\ content.parses THEN content.literal ELSE Reply("raw", EmptyArgs)

\* _generate_provided_args
ArgReplies(t) == {ask_llm(content, TRUE) : content \in ArgContents(t)}

\* _classify_output_confirmation, and _generate_provided_output when it said False
OutputReplies(t) ==
    LET classified == {ask_llm(content, TRUE) : content \in ConfirmationContents}
        provided == {ask_llm(content, TRUE) : content \in ArgContents(t)}
    IN  {r \in classified : r.class # "false"}
            \cup {CASE u.class = "mapping" -> Reply("false", u.m)
                     [] u.class = "none" -> Reply("false_none", EmptyArgs)
                     [] OTHER -> Reply("false_raw", EmptyArgs) : u \in provided}

Replies(t, kind) == IF kind = CONFIRM_OUTPUT THEN OutputReplies(t) ELSE ArgReplies(t)

\* What handle returns or does: goto, the messages and node_params of its
\* update (has_node_params tells whether the update carries node_params), the
\* tool's flags afterwards, and raises when an exception left the handler.
Command(goto, msgs, has_np, np, ec, oc, raises) ==
    [goto |-> goto, messages |-> msgs, has_node_params |-> has_np, node_params |-> np,
     execution_confirmed |-> ec, output_confirmed |-> oc, raises |-> raises]

exit_tool_process_second_note(tool_message, system_id, ec, oc) ==
    LET remove_tool_message == RemoveMessage(tool_message.id)
    IN  Command(END, <<remove_tool_message, SystemMessage(system_id)>>, TRUE,
                [k \in {CHATBOT_UPDATE_MESSAGES} |->
                    [update_messages |-> <<remove_tool_message, SystemMessage(system_id + 1)>>]],
                ec, oc, FALSE)

\* The abort branch shared by the four handlers.  The SystemMessage object is
\* the same in "messages" and in node_params; add_messages gives it its id.
exit_tool_process(tool_message, system_id, ec, oc) ==
    LET remove_tool_message == RemoveMessage(tool_message.id)
        system_message == SystemMessage(system_id)
    IN  Command(END, <<remove_tool_message, system_message>>, TRUE,
                [k \in {CHATBOT_UPDATE_MESSAGES} |->
                    [update_messages |-> <<remove_tool_message, system_message>>]],
                ec, oc, FALSE)

merge_args_fills_missing(tool_message, m) ==
    [tool_message EXCEPT !.tool_calls.args =
        [k \in DOMAIN @ \cup DOMAIN m |->
            IF k \in DOMAIN m /\ (k \notin DOMAIN @ \/ @[k] = Null) THEN m[k] ELSE @[k]]]

\* tool_message.tool_calls[-1]["args"].update(provided_args)
merge_args(tool_message, m) == [tool_message EXCEPT !.tool_calls.args = update(@, m)]

resume_returns_result(tool_message, m, tool_handler_node, ec, oc) ==
    Command(tool_handler_node,
            <<merge_args(tool_message, m),
              ToolMessage(tool_message.id + 1, tool_message.tool_calls.name, NoneOutput,
                          tool_message.tool_calls.id)>>,
            FALSE, EmptyParams, ec, oc, FALSE)

resume(tool_message, m, tool_handler_node, ec, oc) ==
    Command(tool_handler_node, <<merge_args(tool_message, m)>>, FALSE, EmptyParams, ec, oc, FALSE)

failure(ec, oc) == Command(FAILED, <<>>, FALSE, EmptyParams, ec, oc, TRUE)

provide_args_handle_keeps_call(reply, tool_message, tool_handler_node, system_id, ec, oc) ==
    CASE reply.class = "none" ->
            LET system_message == SystemMessage(system_id)
            IN  Command(END, <<system_message>>, TRUE,
                        [k \in {CHATBOT_UPDATE_MESSAGES} |-> [update_messages |-> <<system_message>>]],
                        ec, oc, FALSE)
      [] reply.class = "mapping" -> resume(tool_message, reply.m, tool_handler_node, ec, oc)
      [] OTHER -> failure(ec, oc)

\* BaseToolInterruptProvideArgsHandler.handle
provide_args_handle(reply, tool_message, tool_handler_node, system_id, ec, oc) ==
    CASE reply.class = "none" -> exit_tool_process(tool_message, system_id, ec, oc)
      [] reply.class = "mapping" -> resume(tool_message, reply.m, tool_handler_node, ec, oc)
      [] OTHER -> failure(ec, oc)

invalid_args_handle_without_params(reply, tool_message, tool_handler_node, system_id, ec, oc) ==
    CASE reply.class = "none" ->
            Command(END, <<RemoveMessage(tool_message.id), SystemMessage(system_id)>>, FALSE,
                    EmptyParams, ec, oc, FALSE)
      [] reply.class = "mapping" -> resume(tool_message, reply.m, tool_handler_node, ec, oc)
      [] OTHER -> failure(ec, oc)

\* BaseToolInterruptInvalidArgsHandler.handle
invalid_args_handle(reply, tool_message, tool_handler_node, system_id, ec, oc) ==
    CASE reply.class = "none" -> exit_tool_process(tool_message, system_id, ec, oc)
      [] reply.class = "mapping" -> resume(tool_message, reply.m, tool_handler_node, ec, oc)
      [] OTHER -> failure(ec, oc)

\* BaseToolInterruptArgsConfirmationHandler.handle
args_confirmation_handle(reply, tool_message, tool_handler_node, system_id, ec, oc) ==
    CASE reply.class = "none" -> exit_tool_process(tool_message, system_id, ec, oc)
      [] reply.class = "mapping" -> resume(tool_message, reply.m, tool_handler_node, TRUE, oc)
      [] OTHER -> failure(ec, oc)

\* BaseToolInterruptOutputConfirmationHandler.handle
output_confirmation_handle(reply, tool_message, tool_handler_node, system_id, ec, oc) ==
    CASE reply.class = "true" -> resume(tool_message, EmptyArgs, tool_handler_node, ec, TRUE)
      [] reply.class = "false" -> resume(tool_message, reply.m, tool_handler_node, ec, FALSE)
      [] reply.class \in {"false_none", "false_raw"} -> failure(ec, oc)
      [] OTHER -> exit_tool_process(tool_message, system_id, ec, oc)

\* BaseToolInterruptNode.tool_interupt_handlers[type].handle
handle(kind, reply, tool_message, tool_handler_node, system_id, ec, oc) ==
    CASE kind = PROVIDE_ARGS -> provide_args_handle(reply, tool_message, tool_handler_node, system_id, ec, oc)
      [] kind = INVALID_ARGS -> invalid_args_handle(reply, tool_message, tool_handler_node, system_id, ec, oc)
      [] kind = CONFIRM_ARGS -> args_confirmation_handle(reply, tool_message, tool_handler_node, system_id, ec, oc)
      [] OTHER -> output_confirmation_handle(reply, tool_message, tool_handler_node, system_id, ec, oc)

----------------------------------------------------------------------------
(* Graph nodes *)

\* The sub-flow ended (goto END, or the Tool Handler returned): its final state
\* is written to the parent graph's channels and the parent's edge leads to
\* chatbot.  sub_messages and sub_node_params keep the final state.
SubflowEnds(final_messages, final_node_params) ==
    /\ messages' = add_messages(messages, final_messages)
    /\ node_params' = final_node_params
    /\ sub_messages' = final_messages
    /\ sub_node_params' = final_node_params
    /\ node' = CHATBOT

\* The tools the language model calls: with two conversations, the tools of
\* the sub-flow they share.
CallableTools == IF other = NoOther THEN Tools ELSE {CDS_FORECAST_NOTEBOOK_TOOL}

\* chatbot: route to chatbot_update_messages, or ask the language model, which
\* answers with a tool call (routed to the tool's sub-flow) or with plain text.
\* limit is the number of tool calls the language model issues at most.
chatbot_calls(limit) ==
    /\ node = CHATBOT
    /\ interrupt_nodes = InterruptNodes
    /\ Len(messages) > 0
    /\ \/ /\ CHATBOT_UPDATE_MESSAGES \in DOMAIN node_params
          /\ node' = CHATBOT_UPDATE_MESSAGES
          /\ UNCHANGED <<messages, node_params, sub_messages, sub_node_params, next_id, calls,
                         saves, executions, last_run, resolved, current_call, round_trip>>
       \/ /\ CHATBOT_UPDATE_MESSAGES \notin DOMAIN node_params
          /\ calls < limit
          /\ \E t \in CallableTools : \E args \in ToolArgs(t) :
                LET ai_message == AIMessage(next_id, [name |-> t, args |-> args, id |-> next_id])
                IN  /\ messages' = add_messages(messages, <<ai_message>>)
                    /\ sub_messages' = messages'
                    /\ sub_node_params' = node_params
                    /\ node' = tool_handler_node_name(t)
                    /\ current_call' = [name |-> t, id |-> next_id]
          /\ round_trip' = FALSE
          /\ next_id' = next_id + 1
          /\ calls' = calls + 1
          /\ saves' = 0
          /\ executions' = 0
          /\ last_run' = NoRun
          /\ resolved' = NoResolution
          /\ UNCHANGED node_params
       \/ /\ CHATBOT_UPDATE_MESSAGES \notin DOMAIN node_params
          /\ messages' = add_messages(messages, <<AIMessage(next_id, NoCall)>>)
          /\ node_params' = EmptyParams
          /\ node' = END
          /\ next_id' = next_id + 1
          /\ UNCHANGED <<sub_messages, sub_node_params, calls, saves, executions, last_run, resolved,
                         current_call, round_trip>>
    /\ UNCHANGED <<execution_confirmed, output_confirmed, output, other, inference, interrupt_nodes,
                   tool_interupt_handlers>>

\* chatbot, the language model issuing at most MaxCalls tool calls
chatbot ==
    /\ node = CHATBOT
    /\ chatbot_calls(MaxCalls)

\* chatbot, the language model issuing one tool call more
chatbot_successive ==
    /\ node = CHATBOT
    /\ chatbot_calls(MaxCalls + 1)

\* chatbot_update_messages, followed by the edge to chatbot
chatbot_update_messages ==
    /\ node = CHATBOT_UPDATE_MESSAGES
    /\ messages' = add_messages(messages,
                        IF CHATBOT_UPDATE_MESSAGES \in DOMAIN node_params
                        THEN node_params[CHATBOT_UPDATE_MESSAGES].update_messages ELSE <<>>)
    /\ node_params' = EmptyParams
    /\ node' = CHATBOT
    /\ UNCHANGED <<sub_messages, sub_node_params, execution_confirmed, output_confirmed, output,
                   next_id, calls, saves, executions, last_run, resolved, current_call, round_trip,
                   other, inference, interrupt_nodes,
                   tool_interupt_handlers>>

\* What the language model can answer during a run: a bounding box when
\* infer_area asks for one, code when the code editor asks for it.
Lookups(t, tool_args) ==
    IF t = CDS_FORECAST_NOTEBOOK_TOOL /\ IsPlaceName(tool_args["area"]) THEN LookupResults ELSE {Null}

Codes(t, oc) == IF t = CODE_EDITOR_TOOL /\ ~oc THEN GeneratedCodes ELSE {Null}

Orders(t, tool_args) ==
    IF t = CDS_FORECAST_NOTEBOOK_TOOL /\ tool_args["forecast_variables"] \in {"precip_temp", "tp_t", "t_tp"}
    THEN SetOrders ELSE {"kept"}

SuspendContext_other_kind(tool_message, r, tool_handler_node) ==
    [tool_message |-> tool_message,
     tool_interrupt |-> [tool |-> r.tool, type |-> PROVIDE_ARGS, data |-> r.data],
     tool_handler_node |-> tool_handler_node]

\* The Suspend Context the Tool Handler writes
SuspendContext(tool_message, r, tool_handler_node) ==
    [tool_message |-> tool_message,
     tool_interrupt |-> [tool |-> r.tool, type |-> r.raised, data |-> r.data],
     tool_handler_node |-> tool_handler_node]

\* tool_handler_template.  self.tools[tool_call['name']] raises KeyError for a
\* name the registry does not hold; the error is no BaseToolInterrupt and
\* leaves the node.
tool_handler_template ==
    /\ node \in HandlerNodes
    /\ LET tool_message == LastMessage(sub_messages)
           tool_call == tool_message.tool_calls
           t == tool_call.name
       IN  IF t \notin tools(node)
           THEN /\ node' = FAILED
                /\ UNCHANGED <<messages, node_params, sub_messages, sub_node_params, execution_confirmed,
                               output_confirmed, output, next_id, saves, executions, last_run>>
           ELSE
           \E lookup \in Lookups(t, tool_call.args) : \E code \in Codes(t, output_confirmed[t]) :
           \E order \in Orders(t, tool_call.args) :
             LET r == run(t, tool_call.args, execution_confirmed[t], output_confirmed[t], output[t],
                          lookup, code, order)
             IN  /\ execution_confirmed' = [execution_confirmed EXCEPT ![t] = r.execution_confirmed]
                 /\ output_confirmed' = [output_confirmed EXCEPT ![t] = r.output_confirmed]
                 /\ output' = [output EXCEPT ![t] = r.output]
                 /\ last_run' = [r EXCEPT !.lookup = Null, !.code = Null, !.order = Null]
                 /\ saves' = Min(MaxCount, saves + (IF r.saved THEN 1 ELSE 0))
                 /\ executions' = Min(MaxCount, executions + (IF Entered(r, "execute") THEN 1 ELSE 0))
                 /\ CASE r.raised = TYPE_ERROR ->
                         /\ node' = FAILED
                         /\ UNCHANGED <<messages, node_params, sub_messages, sub_node_params, next_id>>
                      [] r.raised \in BaseToolInterruptType ->
                         /\ sub_node_params' =
                                [k \in {interrupt_node_of(node)} |-> SuspendContext(tool_message, r, node)]
                         /\ node' = interrupt_node_of(node)
                         /\ UNCHANGED <<messages, node_params, sub_messages, next_id>>
                      [] OTHER -> /\ SubflowEnds(add_messages(sub_messages,
                                            <<ToolMessage(next_id, tool_call.name, r.output, tool_call.id)>>),
                                        EmptyParams)
                         /\ next_id' = next_id + 1
    /\ UNCHANGED <<calls, resolved, current_call, round_trip, other, inference, interrupt_nodes,
                   tool_interupt_handlers>>

\* tool_interrupt_node_template: the human answers, the language model reads the
\* answer, the handler of the interrupt's kind returns the command.
tool_interrupt_node_template ==
    /\ node \in InterruptNodes
    /\ LET interrupt_data == sub_node_params[node]
           tool_interrupt == interrupt_data.tool_interrupt
           t == tool_interrupt.tool
           tool_message == interrupt_data.tool_message
       IN  \E reply \in Replies(t, tool_interrupt.type) :
             LET command == handle(tool_interrupt.type, reply, tool_message,
                                   interrupt_data.tool_handler_node, next_id,
                                   execution_confirmed[t], output_confirmed[t])
                 new_messages == add_messages(sub_messages, command.messages)
                 new_args == IF command.goto \in HandlerNodes
                             THEN command.messages[1].tool_calls.args ELSE tool_message.tool_calls.args
             IN  /\ execution_confirmed' = [execution_confirmed EXCEPT ![t] = command.execution_confirmed]
                 /\ output_confirmed' = [output_confirmed EXCEPT ![t] = command.output_confirmed]
                 /\ round_trip' =
                        /\ ~command.raises /\ command.goto # END
                        /\ \/ /\ tool_interrupt.type = PROVIDE_ARGS
                              /\ missing_args(t, new_args) = {}
                              /\ DOMAIN invalid_args(t, new_args) = {}
                           \/ /\ tool_interrupt.type \in {CONFIRM_ARGS, CONFIRM_OUTPUT}
                              /\ reply.class \in {"mapping", "true"}
                              /\ new_args = tool_message.tool_calls.args
                              /\ round_trip
                 /\ resolved' = Resolution(tool_interrupt.type, reply.class,
                                           CASE command.raises -> "error"
                                             [] command.goto = END -> "abort"
                                             [] OTHER -> "resume",
                                           new_args = tool_message.tool_calls.args)
                 /\ CASE command.raises ->
                            /\ node' = FAILED
                            /\ UNCHANGED <<messages, node_params, sub_messages, sub_node_params, next_id>>
                      [] command.goto = END ->
                            /\ SubflowEnds(new_messages,
                                           IF command.has_node_params THEN command.node_params
                                           ELSE sub_node_params)
                            /\ next_id' = next_id + 1
                      [] OTHER ->
                            /\ node' = command.goto
                            /\ sub_messages' = new_messages
                            /\ sub_node_params' =
                                    IF command.has_node_params THEN command.node_params
                                    ELSE [sub_node_params EXCEPT ![node].tool_message = command.messages[1]]
                            /\ UNCHANGED <<messages, node_params, next_id>>
    /\ UNCHANGED <<output, calls, saves, executions, last_run, current_call, other, inference, interrupt_nodes,
                   tool_interupt_handlers>>

\* A compiled sub-flow run on a conversation whose last message calls a tool
\* of another sub-flow (the edge START -> Tool Handler); chatbot never routes
\* a call this way.
subflow_invoke ==
    /\ node = CHATBOT
    /\ interrupt_nodes = InterruptNodes
    /\ CHATBOT_UPDATE_MESSAGES \notin DOMAIN node_params
    /\ calls < MaxCalls
    /\ \E t \in CallableTools : \E h \in HandlerNodes \ {tool_handler_node_name(t)} :
         \E args \in ToolArgs(t) :
            LET ai_message == AIMessage(next_id, [name |-> t, args |-> args, id |-> next_id])
            IN  /\ messages' = add_messages(messages, <<ai_message>>)
                /\ sub_messages' = messages'
                /\ sub_node_params' = node_params
                /\ node' = h
                /\ current_call' = [name |-> t, id |-> next_id]
    /\ round_trip' = FALSE
    /\ next_id' = next_id + 1
    /\ calls' = calls + 1
    /\ saves' = 0
    /\ executions' = 0
    /\ last_run' = NoRun
    /\ resolved' = NoResolution
    /\ UNCHANGED <<node_params, execution_confirmed, output_confirmed, output, other, inference, interrupt_nodes,
                   tool_interupt_handlers>>

Next ==
    \/ chatbot
    \/ subflow_invoke
    \/ chatbot_update_messages
    \/ tool_handler_template
    \/ tool_interrupt_node_template

Spec == Init /\ [][Next]_vars

\* The conversation goes on after a tool call ended: the language model
\* issues a further call.
NextSuccessive ==
    \/ chatbot_successive
    \/ subflow_invoke
    \/ chatbot_update_messages
    \/ tool_handler_template
    \/ tool_interrupt_node_template

SpecSuccessive == Init /\ [][NextSuccessive]_vars

\* The host process starts again while a sub-flow is suspended: the modules are
\* imported anew and every tool object is constructed again; the conversation
\* state is kept by the host.
restart ==
    /\ node \in InterruptNodes
    /\ execution_confirmed' = [t \in Tools |-> ConstructionFlags(t).execution_confirmed]
    /\ output_confirmed' = [t \in Tools |-> ConstructionFlags(t).output_confirmed]
    /\ output' = [t \in Tools |-> NoneOutput]
    /\ UNCHANGED <<node, messages, node_params, sub_messages, sub_node_params, next_id, calls, saves,
                   executions, last_run, resolved, current_call, round_trip, other, inference, interrupt_nodes,
                   tool_interupt_handlers>>

NextRestart ==
    \/ Next
    \/ restart

SpecRestart == Init /\ [][NextRestart]_vars

\* Values an argument can have before or after inference.
InferenceValues(arg) ==
    ArgValues(arg) \cup
    ( CASE arg = "forecast_variables" -> {"total_precipitation", "precip_temp", "tp_t", "t_tp"}
        [] arg = "area" -> {"bbox_r"}
        [] arg = "jupyter_notebook" -> {"nb.ipynb", "auto.ipynb"}
        [] OTHER -> {} )

\* The argument sets with no None value, the area a list, that pass
\* check_required_args and check_validation_rules.
FullySpecified(t) ==
    {tool_args \in [Fields(t) -> UNION {InferenceValues(arg) : arg \in Fields(t)}] :
        /\ \A arg \in Fields(t) : tool_args[arg] \in InferenceValues(arg) \ {Null}
        /\ t = CDS_FORECAST_NOTEBOOK_TOOL => ~IsPlaceName(tool_args["area"])
        /\ missing_args(t, tool_args) = {}
        /\ DOMAIN invalid_args(t, tool_args) = {}}

InitInference ==
    /\ InitConversation
    /\ other = NoOther
    /\ Imported
    /\ \E t \in Tools : \E tool_args \in FullySpecified(t) : \E ec \in BOOLEAN : \E order \in SetOrders :
         inference = Inference(t, tool_args, ec, order, 0)

\* BaseAgentTool.infer_args called once more on the arguments
infer_args_pass ==
    /\ inference.passes < MaxPasses
    /\ \E lookup \in Lookups(inference.tool, inference.tool_args) :
         LET t == inference.tool
             st == infer_args_step(RunState(t, inference.tool_args, inference.execution_confirmed,
                                            ConstructionFlags(t).output_confirmed, NoneOutput, lookup,
                                            Null, inference.order))
         IN  inference' = [inference EXCEPT !.tool_args = st.tool_args,
                                            !.execution_confirmed = st.execution_confirmed,
                                            !.passes = @ + 1]
    /\ UNCHANGED <<node, messages, node_params, sub_messages, sub_node_params, execution_confirmed,
                   output_confirmed, output, next_id, calls, saves, executions, last_run, resolved,
                   current_call, round_trip, other, interrupt_nodes, tool_interupt_handlers>>

NextInference == infer_args_pass

SpecInference == InitInference /\ [][NextInference]_vars

\* The sub-flow modules are imported one after the other, in any order; the
\* graph runs once all are.
InitModules ==
    /\ InitConversation
    /\ other = NoOther
    /\ inference = NoInference
    /\ interrupt_nodes = {}
    /\ tool_interupt_handlers = DefaultHandlers

\* BaseToolInterruptNode.__init__ for the interrupt node of one sub-flow:
\* self.tool_interupt_handlers.update(...) updates the dict of the class.
BaseToolInterruptNode_init ==
    /\ \E n \in InterruptNodes \ interrupt_nodes :
         /\ interrupt_nodes' = interrupt_nodes \cup {n}
         /\ tool_interupt_handlers' = update(tool_interupt_handlers, custom_tool_interupt_handlers(n))
    /\ UNCHANGED <<node, messages, node_params, sub_messages, sub_node_params, execution_confirmed,
                   output_confirmed, output, next_id, calls, saves, executions, last_run, resolved,
                   current_call, round_trip, other, inference>>

NextModules ==
    \/ BaseToolInterruptNode_init
    \/ Next

SpecModules == InitModules /\ [][NextModules]_vars

\* tool_handler_template in the second conversation: the registry holds the
\* tool instances of the module, the same for every conversation.
other_tool_handler ==
    /\ other.node = tool_handler_node_name(OtherCall.name)
    /\ LET t == OtherCall.name
       IN  \E lookup \in Lookups(t, OtherCall.args) : \E code \in Codes(t, output_confirmed[t]) :
           \E order \in Orders(t, OtherCall.args) :
             LET r == run(t, OtherCall.args, execution_confirmed[t], output_confirmed[t], output[t],
                          lookup, code, order)
             IN  /\ execution_confirmed' = [execution_confirmed EXCEPT ![t] = r.execution_confirmed]
                 /\ output_confirmed' = [output_confirmed EXCEPT ![t] = r.output_confirmed]
                 /\ output' = [output EXCEPT ![t] = r.output]
                 /\ other' = Other(IF r.raised # Null THEN tool_interrupt_node_name(t) ELSE END,
                                   other.confirmed,
                                   other.executed \/ Entered(r, "execute"),
                                   IF r.raised # Null THEN other.result ELSE r.output)
    /\ UNCHANGED <<node, messages, node_params, sub_messages, sub_node_params, next_id, calls, saves,
                   executions, last_run, resolved, current_call, round_trip,
                   inference, interrupt_nodes,
                   tool_interupt_handlers>>

\* tool_interrupt_node_template in the second conversation: its human confirms
\* the arguments as they are.
other_tool_interrupt ==
    /\ other.node = tool_interrupt_node_name(OtherCall.name)
    /\ LET t == OtherCall.name
           command == handle(CONFIRM_ARGS, Reply("mapping", EmptyArgs),
                             AIMessage(OtherCall.id, OtherCall), tool_handler_node_name(t), next_id,
                             execution_confirmed[t], output_confirmed[t])
       IN  /\ execution_confirmed' = [execution_confirmed EXCEPT ![t] = command.execution_confirmed]
           /\ output_confirmed' = [output_confirmed EXCEPT ![t] = command.output_confirmed]
           /\ other' = [other EXCEPT !.node = command.goto, !.confirmed = TRUE]
    /\ UNCHANGED <<node, messages, node_params, sub_messages, sub_node_params, output, next_id, calls,
                   saves, executions, last_run, resolved, current_call, round_trip,
                   inference, interrupt_nodes,
                   tool_interupt_handlers>>

NextShared ==
    \/ Next
    \/ other_tool_handler
    \/ other_tool_interrupt

SpecShared == InitShared /\ [][NextShared]_vars

----------------------------------------------------------------------------
(* Properties *)

Suspended == node \in InterruptNodes
InSubflow == node \in HandlerNodes \cup InterruptNodes

\* When suspended: the pending call and the interrupt of the Suspend Context.
PendingCall == LastMessage(sub_messages).tool_calls
RaisedType == sub_node_params[node].tool_interrupt.type

\* A Tool Handler run has taken place after the latest Interrupt Handler step,
\* which handled an interrupt of this kind and routed back to the Tool Handler.
ResumedRunDone(kind) ==
    /\ resolved.kind = kind
    /\ resolved.outcome = "resume"
    /\ node \notin HandlerNodes

\* The Tool Handler returned the tool's result for the current call.
Completed ==
    /\ ~InSubflow
    /\ sub_messages # <<>>
    /\ LastMessage(sub_messages).type = "tool"
    /\ LastMessage(sub_messages).tool_call_id = current_call.id

IsPrefix(s, t) == Len(s) <= Len(t) /\ \A i \in 1..Len(s) : s[i] = t[i]

\* required -> validity -> inference -> confirm-args -> execute -> confirm-output
StageOrder ==
    <<"check_required_args", "check_validation_rules", "infer_args", "confirm_args",
      "execute", "confirm_ouputs">>

RaisingStage(kind) ==
    CASE kind = PROVIDE_ARGS -> 1
      [] kind = INVALID_ARGS -> 2
      [] kind = CONFIRM_ARGS -> 4
      [] OTHER -> 6

\* C1: the stages of every run are entered in the order required, validity,
\* inference, confirm-args, execute, confirm-output; a run ends at the stage
\* that raised; and when the pending arguments have both a missing required
\* argument and an argument a validation rule rejects, the interrupt raised
\* is PROVIDE_ARGS.
C1_ValidationPrecedesConfirmation ==
    /\ IsPrefix(last_run.trace, StageOrder)
    /\ last_run.raised # Null => Len(last_run.trace) = RaisingStage(last_run.raised)
    /\ (last_run.raised = Null /\ last_run.tool # Null) => last_run.trace = StageOrder
    /\ Suspended =>
            /\ RaisedType = last_run.raised
            /\ (/\ missing_args(PendingCall.name, PendingCall.args) # {}
                /\ DOMAIN invalid_args(PendingCall.name, PendingCall.args) # {})
               => RaisedType = PROVIDE_ARGS

C1_Witness ==
    /\ Suspended
    /\ missing_args(PendingCall.name, PendingCall.args) # {}
    /\ DOMAIN invalid_args(PendingCall.name, PendingCall.args) # {}
    /\ RaisedType = PROVIDE_ARGS

\* The tool was constructed with both confirmations skipped.
SkipsConfirmation(t) ==
    t \in Tools /\ ConstructionFlags(t).execution_confirmed /\ ConstructionFlags(t).output_confirmed

\* C2 as stated: for a tool constructed with execution_confirmed and
\* output_confirmed true, the run that follows the supply of the missing
\* argument (arguments now complete and valid) raises no interrupt and the
\* tool body has executed exactly once.
C2_NoFurtherInterrupt ==
    (SkipsConfirmation(current_call.name) /\ ResumedRunDone(PROVIDE_ARGS) /\ round_trip)
        => (~Suspended /\ Completed /\ executions = 1)

\* C2 amended: that run raises CONFIRM_ARGS and executes nothing; the run that
\* follows the unchanged confirmation of the arguments raises no interrupt,
\* completes, and the tool body has executed exactly once.
C2_ConfirmArgsThenOnce ==
    /\ (SkipsConfirmation(current_call.name) /\ ResumedRunDone(PROVIDE_ARGS) /\ round_trip)
            => (Suspended /\ RaisedType = CONFIRM_ARGS /\ executions = 0)
    /\ (SkipsConfirmation(current_call.name) /\ ResumedRunDone(CONFIRM_ARGS) /\ round_trip)
            => (~Suspended /\ Completed /\ executions = 1)

C2_Witness ==
    /\ SkipsConfirmation(current_call.name)
    /\ ResumedRunDone(CONFIRM_ARGS)
    /\ round_trip
    /\ Completed
    /\ executions = 1

\* The arguments of the current call as the sub-flow's messages hold them.
CallArgs ==
    LET i == CHOOSE i \in 1..Len(sub_messages) : sub_messages[i].id = current_call.id
    IN  sub_messages[i].tool_calls.args

\* What running the tool directly on an argument set can return.
DirectOutputs(t, args) ==
    {execute(t, infer_args(t, args, l, o), TRUE, ConstructionFlags(t).output_confirmed, NoneOutput, c).output :
        l \in LookupResults, c \in GeneratedCodes, o \in SetOrders}

\* C3: once a missing argument was supplied with a valid value and the human
\* only confirms afterwards, every run gets past the stage whose interrupt the
\* human answered last (PROVIDE_ARGS is not raised again and no confirmation
\* is asked twice, so the sub-flow reaches the completed state after at most
\* two confirmations), and the tool result is what the tool returns when run
\* directly on the completed arguments.
C3_RoundTripResume ==
    /\ (round_trip /\ Suspended) =>
            /\ RaisedType # PROVIDE_ARGS
            /\ RaisingStage(RaisedType) > RaisingStage(resolved.kind)
    /\ (round_trip /\ Completed) =>
            LastMessage(sub_messages).content \in DirectOutputs(current_call.name, CallArgs)

\* C4: during one code-editor tool call the notebook is saved at most once,
\* and the result returned by the run that follows the confirmation of the
\* output is the output that was shown for confirmation.
C4_NoDuplicateSideEffects ==
    /\ [](current_call.name = CODE_EDITOR_TOOL => saves <= 1)
    /\ [][(/\ node \in HandlerNodes
           /\ resolved.kind = CONFIRM_OUTPUT /\ resolved.reply = "true"
           /\ Completed')
          => LastMessage(sub_messages').content =
                sub_node_params[tool_interrupt_node_name(current_call.name)].tool_interrupt.data.output]_vars

\* C5: the run that follows the confirmation of a CONFIRM_OUTPUT interrupt
\* completes: it raises no interrupt and appends the tool-result message that
\* carries the stored output.
C5_ConfirmedOutputCompletes ==
    (ResumedRunDone(CONFIRM_OUTPUT) /\ resolved.reply = "true")
        => /\ ~Suspended
           /\ Completed
           /\ LastMessage(sub_messages).content = output[current_call.name]

\* C6: the run that follows the confirmation of a CONFIRM_ARGS interrupt with
\* unchanged arguments executes the tool body and does not raise CONFIRM_ARGS
\* again.
C6_ConfirmedArgsExecute ==
    (ResumedRunDone(CONFIRM_ARGS) /\ resolved.unchanged)
        => /\ Entered(last_run, "execute")
           /\ ~(Suspended /\ RaisedType = CONFIRM_ARGS)

\* C7: when the reply to an interrupt of any kind is read as None, the handler
\* routes to END and the sub-flow returns to the parent graph, the pending
\* tool-call message is gone from the sub-flow's messages, the step runs no
\* tool body, and once the parent graph applied the update no pending tool
\* call is left in the conversation.
C7_AbortRemovesPendingCall ==
    /\ [](resolved.reply = "none" =>
            /\ resolved.outcome = "abort"
            /\ node \in {CHATBOT, CHATBOT_UPDATE_MESSAGES, END}
            /\ ~HasId(sub_messages, current_call.id)
            /\ PendingCalls(sub_messages) = {})
    /\ []((resolved.reply = "none" /\ node \in {CHATBOT, END}
                /\ CHATBOT_UPDATE_MESSAGES \notin DOMAIN node_params)
            => (~HasId(messages, current_call.id) /\ PendingCalls(messages) = {}))
    /\ [][(Suspended /\ resolved'.reply = "none")
            => (node' = CHATBOT /\ executions' = executions /\ saves' = saves
                    /\ output' = output /\ last_run' = last_run)]_vars

C7_Witness ==
    /\ resolved.reply = "none"
    /\ resolved.kind = CONFIRM_OUTPUT
    /\ node = CHATBOT
    /\ node_params = EmptyParams
    /\ PendingCalls(messages) = {}

\* C8: after an abort at any interrupt kind no Suspend Context is left under
\* an interrupt node's name, neither in the sub-flow's final state nor in
\* the parent graph's state, up to the end of the turn.
C8_AbortClearsSuspendContext ==
    resolved.outcome = "abort" =>
        \A n \in InterruptNodes : n \notin DOMAIN node_params /\ n \notin DOMAIN sub_node_params

C8_Witness ==
    /\ resolved.outcome = "abort"
    /\ resolved.kind = INVALID_ARGS
    /\ node = END
    /\ node_params = EmptyParams

\* C9: after an abort neither execution_confirmed nor output_confirmed of the
\* tool of the aborted call is true.
C9_NoResidualFlags ==
    resolved.outcome = "abort" =>
        /\ ~execution_confirmed[current_call.name]
        /\ ~output_confirmed[current_call.name]

\* The system messages appended since the current call was issued.
SystemMessagesOfCall(msgs) ==
    Cardinality({i \in 1..Len(msgs) : msgs[i].type = "system" /\ msgs[i].id > current_call.id})

\* C10: an abort leaves exactly one system message of the aborted call, in the
\* sub-flow's final messages and in the parent graph's messages, before and
\* after chatbot_update_messages applied its patch.
C10_OneSystemMessage ==
    resolved.outcome = "abort" =>
        /\ SystemMessagesOfCall(sub_messages) = 1
        /\ SystemMessagesOfCall(messages) = 1

C10_Witness ==
    /\ resolved.outcome = "abort"
    /\ resolved.kind = PROVIDE_ARGS
    /\ node = CHATBOT
    /\ node_params = EmptyParams
    /\ SystemMessagesOfCall(messages) = 1

\* The reply of the most recent Interrupt Handler step was text that
\* ast.literal_eval rejected.
UnparsedReply == resolved.reply \in {"raw", "false_raw"}

\* C11: when the language model's reading of the reply cannot be parsed, the
\* handler neither aborts nor lets an exception escape, the pending tool call
\* stays in the sub-flow's messages with its arguments unchanged, and the
\* sub-flow goes on to ask again.
C11_UnparsedReplyAsksAgain ==
    UnparsedReply =>
        /\ resolved.outcome = "resume"
        /\ resolved.unchanged
        /\ node # FAILED
        /\ HasId(sub_messages, current_call.id)

\* C12: ask_llm with eval_output never returns the text of the response: what
\* an Interrupt Handler step got from it is None, a mapping or a boolean.
C12_UnparsedIsNone ==
    resolved.kind # Null => ~UnparsedReply

\* The most recent run of the current call returned normally.
Returned == last_run.tool # Null /\ last_run.raised = Null

\* The tool-result messages that answer the current call.
ToolResults(msgs) ==
    {i \in 1..Len(msgs) : msgs[i].type = "tool" /\ msgs[i].tool_call_id = current_call.id}

\* C13: when the run returned normally, the sub-flow's messages hold exactly
\* one tool-result message for the pending call, it is the last message, its
\* name is the call's name and its content the value the run returned; no
\* Suspend Context is left, the Interrupt Handler is not the next node, and
\* the parent graph holds the same single tool-result message.
C13_NormalReturnAppendsResult ==
    Returned =>
        /\ Cardinality(ToolResults(sub_messages)) = 1
        /\ LastMessage(sub_messages).type = "tool"
        /\ LastMessage(sub_messages).tool_call_id = current_call.id
        /\ LastMessage(sub_messages).name = current_call.name
        /\ LastMessage(sub_messages).content = last_run.output
        /\ \A n \in InterruptNodes : n \notin DOMAIN sub_node_params /\ n \notin DOMAIN node_params
        /\ ~InSubflow
        /\ Cardinality(ToolResults(messages)) = 1

C13_Witness ==
    /\ Returned
    /\ current_call.name = CDS_FORECAST_NOTEBOOK_TOOL
    /\ resolved.kind = CONFIRM_ARGS
    /\ node = CHATBOT
    /\ Cardinality(ToolResults(messages)) = 1

\* The Tool Handler that runs next was entered with a call of a tool that
\* its sub-flow's registry does not hold.
UnknownTool ==
    /\ node \in HandlerNodes
    /\ tool_handler_node_name(LastMessage(sub_messages).tool_calls.name) # node

\* C14: a Tool Handler step on a call of a tool that is not in the registry
\* ends in the failed state: it leaves the messages and node_params of the
\* sub-flow and of the parent graph as they were (no Suspend Context, no
\* tool-result message), does not route to the Interrupt Handler, runs no
\* tool and changes no tool's flags or output.
C14_UnknownToolFails ==
    [][UnknownTool =>
        /\ node' = FAILED
        /\ sub_node_params' = sub_node_params
        /\ sub_messages' = sub_messages
        /\ messages' = messages
        /\ node_params' = node_params
        /\ execution_confirmed' = execution_confirmed
        /\ output_confirmed' = output_confirmed
        /\ output' = output
        /\ executions' = executions
        /\ saves' = saves]_vars

C14_Witness ==
    /\ node = FAILED
    /\ resolved = NoResolution
    /\ current_call.name = CODE_EDITOR_TOOL
    /\ LastMessage(sub_messages).tool_calls.name = CODE_EDITOR_TOOL
    /\ ToolResults(sub_messages) = {}

\* C15: with two conversations in the same sub-flow, the tool body runs for a
\* conversation only after that conversation's own human confirmed the
\* arguments, and the result a conversation gets is the one its own arguments
\* produce.
C15_ConversationIsolation ==
    /\ other.executed => other.confirmed
    /\ (other # NoOther /\ Entered(last_run, "execute")) => resolved.kind = CONFIRM_ARGS
    /\ other.node = END => other.result \in DirectOutputs(OtherCall.name, OtherCall.args)

\* Where a suspended sub-flow gets to when the human's reply is handled and the
\* Tool Handler runs again, given the fields ec, oc, out of the tool object: the
\* next node, the messages written, the interrupt raised and the tool result.
Resumption(ec, oc, out, reply, lookup, code, order) ==
    LET interrupt_data == sub_node_params[node]
        t == interrupt_data.tool_interrupt.tool
        command == handle(interrupt_data.tool_interrupt.type, reply, interrupt_data.tool_message,
                          interrupt_data.tool_handler_node, next_id, ec, oc)
    IN  IF command.raises \/ command.goto = END
        THEN [next |-> command.goto, messages |-> command.messages, raised |-> Null,
              data |-> NoData, result |-> NoneOutput]
        ELSE LET r == run(t, command.messages[1].tool_calls.args, command.execution_confirmed,
                          command.output_confirmed, out, lookup, code, order)
             IN  [next |-> CASE r.raised = TYPE_ERROR -> FAILED
                             [] r.raised # Null -> node
                             [] OTHER -> END,
                  messages |-> command.messages, raised |-> r.raised, data |-> r.data,
                  result |-> IF r.raised = Null THEN r.output ELSE NoneOutput]

\* C16: a restart of the host process while a sub-flow is suspended changes
\* nothing of the resumption: for every reply of the human, the next node, the
\* conversation state and the tool result are the ones reached with the tool
\* fields as they were before the restart.
C16_DurableSuspension ==
    [][restart =>
        LET interrupt_data == sub_node_params[node]
            t == interrupt_data.tool_interrupt.tool
        IN  \A reply \in Replies(t, interrupt_data.tool_interrupt.type) :
              \A lookup \in LookupResults : \A code \in GeneratedCodes : \A order \in SetOrders :
                Resumption(execution_confirmed[t], output_confirmed[t], output[t], reply, lookup, code,
                           order)
                = Resumption(execution_confirmed'[t], output_confirmed'[t], output'[t], reply, lookup,
                             code, order)]_vars

\* C17: on a fully specified, valid argument set, a second infer_args pass
\* leaves every argument value and execution_confirmed as the first pass left
\* them.
C17_IdempotentInference ==
    [][(inference.passes = 1 /\ inference'.passes = 2) =>
            /\ inference'.tool_args = inference.tool_args
            /\ inference'.execution_confirmed = inference.execution_confirmed]_vars

\* C18: an Interrupt Handler step that resolves PROVIDE_ARGS or INVALID_ARGS
\* without aborting goes to the Tool Handler of the suspended call, and a Tool
\* Handler run that enters the tool body has first made the required-arguments
\* check and the validation check, in that run, on arguments that pass both.
C18_RevalidationMandatory ==
    [][/\ (/\ node \in InterruptNodes
           /\ node' # node
           /\ RaisedType \in {PROVIDE_ARGS, INVALID_ARGS}
           /\ resolved'.outcome = "resume")
          => /\ node' = sub_node_params[node].tool_handler_node
             /\ node' = tool_handler_node_name(PendingCall.name)
       /\ (/\ node \in HandlerNodes
           /\ node' # node
           /\ tool_handler_node_name(PendingCall.name) = node
           /\ Entered(last_run', "execute"))
          => /\ IsPrefix(<<"check_required_args", "check_validation_rules">>, last_run'.trace)
             /\ last_run'.tool = PendingCall.name
             /\ missing_args(PendingCall.name, PendingCall.args) = {}
             /\ DOMAIN invalid_args(PendingCall.name, PendingCall.args) = {}]_vars

\* A missing argument was supplied, the Tool Handler ran again from the first
\* check and the tool body was entered after the confirmation that followed.
C18_Witness ==
    /\ round_trip
    /\ Entered(last_run, "execute")
    /\ last_run.raised = Null
    /\ current_call.name = CDS_FORECAST_NOTEBOOK_TOOL

\* The return value of the first rule, in registration order, that is not None.
RECURSIVE FirstReason(_, _, _)
FirstReason(rules, i, tool_args) ==
    IF i > Len(rules) THEN Null
    ELSE IF rule(rules[i], tool_args) # Null THEN rule(rules[i], tool_args)
    ELSE FirstReason(rules, i + 1, tool_args)

\* C19: the reason an INVALID_ARGS interrupt carries for an argument is the
\* return value of the first of the argument's rules that returned non-null.
C19_FirstReasonRecorded ==
    (Suspended /\ RaisedType = INVALID_ARGS) =>
        LET reasons == sub_node_params[node].tool_interrupt.data.invalid_args
        IN  \A arg \in DOMAIN reasons :
                reasons[arg] = FirstReason(args_validation_rules(PendingCall.name, arg), 1, PendingCall.args)

\* C20: a run enters the tool body only when execution_confirmed was true at
\* its confirm-args check; a run that reaches the check with the flag false
\* raises CONFIRM_ARGS with the inferred arguments and does not enter the body.
C20_ExecuteOnlyConfirmed ==
    /\ Entered(last_run, "execute") => last_run.confirmed_at_check
    /\ (Entered(last_run, "confirm_args") /\ ~last_run.confirmed_at_check) =>
            /\ last_run.raised = CONFIRM_ARGS
            /\ ~Entered(last_run, "execute")
            /\ last_run.data.args = last_run.tool_args
    /\ (Suspended /\ RaisedType = CONFIRM_ARGS) =>
            sub_node_params[node].tool_interrupt.data.args \in
                {infer_args(PendingCall.name, PendingCall.args, l, o) : l \in LookupResults, o \in SetOrders}

\* The first run stopped at the confirm-args check with CONFIRM_ARGS, the human
\* confirmed, and the next run passed the check and entered the tool body.
C20_Witness ==
    /\ Entered(last_run, "execute")
    /\ last_run.confirmed_at_check
    /\ last_run.tool = CDS_FORECAST_NOTEBOOK_TOOL
    /\ resolved.kind = CONFIRM_ARGS
    /\ resolved.outcome = "resume"

\* C21: when a Tool Handler run returned its output, execution_confirmed and
\* output_confirmed of the tool have the values the tool had at construction.
C21_CompletionRestoresFlags ==
    Returned =>
        /\ execution_confirmed[last_run.tool] = ConstructionFlags(last_run.tool).execution_confirmed
        /\ output_confirmed[last_run.tool] = ConstructionFlags(last_run.tool).output_confirmed

\* A notebook tool returned after its arguments were confirmed, so the flag the
\* confirmation had set is back at its construction value.
C21_Witness ==
    /\ Returned
    /\ last_run.tool = CDS_FORECAST_NOTEBOOK_TOOL
    /\ last_run.confirmed_at_check
    /\ resolved.kind = CONFIRM_ARGS
    /\ ~execution_confirmed[CDS_FORECAST_NOTEBOOK_TOOL]

C23_InterruptFollowsRaise ==
    [][(node' \in InterruptNodes /\ node' # node) =>
            /\ node \in HandlerNodes
            /\ node' = interrupt_node_of(node)
            /\ last_run'.raised \in BaseToolInterruptType
            /\ last_run'.tool = PendingCall.name
            /\ DOMAIN sub_node_params' = {node'}
            /\ sub_node_params'[node'].tool_message = LastMessage(sub_messages')
            /\ sub_node_params'[node'].tool_message.tool_calls.id = current_call.id
            /\ sub_node_params'[node'].tool_interrupt.tool = last_run'.tool
            /\ sub_node_params'[node'].tool_interrupt.type = last_run'.raised
            /\ sub_node_params'[node'].tool_interrupt.data = last_run'.data
            /\ sub_node_params'[node'].tool_handler_node = node]_vars

\* A second suspension of the same call: the Suspend Context now holds the
\* interrupt of the run that followed the human's reply.
C23_Witness ==
    /\ Suspended
    /\ resolved.kind = PROVIDE_ARGS
    /\ resolved.outcome = "resume"
    /\ RaisedType = CONFIRM_ARGS
    /\ last_run.raised = CONFIRM_ARGS
    /\ sub_node_params[node].tool_message = LastMessage(sub_messages)

\* C24: when the Interrupt Handler routes back to the Tool Handler, the state
\* no longer holds the Suspend Context under the interrupt node's name.
C24_ResumeClearsSuspendContext ==
    [][(node \in InterruptNodes /\ node' \in HandlerNodes) => node \notin DOMAIN sub_node_params']_vars

\* C25: an Interrupt Handler step leaves the stored output of every tool as it
\* is, runs no tool body, saves nothing and adds no tool result; beyond its
\* routing it changes only the arguments of the pending call and the two flags
\* of the interrupted tool.
C25_InterruptStepRunsNoTool ==
    [][(node \in InterruptNodes /\ node' # node) =>
            LET t == sub_node_params[node].tool_interrupt.tool
            IN  /\ output' = output
                /\ executions' = executions
                /\ saves' = saves
                /\ last_run' = last_run
                /\ \A u \in Tools \ {t} :
                        /\ execution_confirmed'[u] = execution_confirmed[u]
                        /\ output_confirmed'[u] = output_confirmed[u]
                /\ ToolResults(sub_messages') = ToolResults(sub_messages)
                /\ node' \in HandlerNodes =>
                        /\ Len(sub_messages') = Len(sub_messages)
                        /\ \A i \in 1..Len(sub_messages) :
                             [sub_messages'[i] EXCEPT !.tool_calls.args = sub_messages[i].tool_calls.args]
                             = sub_messages[i]]_vars

\* The human confirmed the arguments and changed one: the step set the flag and
\* rewrote the pending call, and no tool body has run for this call.
C25_Witness ==
    /\ node \in HandlerNodes
    /\ resolved.kind = CONFIRM_ARGS
    /\ resolved.outcome = "resume"
    /\ ~resolved.unchanged
    /\ execution_confirmed[current_call.name]
    /\ executions = 0
    /\ saves = 0

\* The human asked for changes to the output shown.
ChangeRequest(class) == class \in {"false", "false_none", "false_raw"}

\* C26: when the human answers CONFIRM_OUTPUT with a change request, the
\* Interrupt Handler merges the updated arguments into the pending call, clears
\* output_confirmed and routes to the Tool Handler; the run that follows, when
\* the merged arguments are present and valid, enters the tool body with them
\* and raises CONFIRM_OUTPUT again, saving nothing and raising no CONFIRM_ARGS.
C26_ChangeRequestReruns ==
    [][/\ (/\ node \in InterruptNodes
           /\ node' # node
           /\ RaisedType = CONFIRM_OUTPUT
           /\ ChangeRequest(resolved'.reply))
          => /\ node' = sub_node_params[node].tool_handler_node
             /\ ~output_confirmed'[PendingCall.name]
             /\ LastMessage(sub_messages').tool_calls.args \in
                    {update(PendingCall.args, m) : m \in Mappings(PendingCall.name)}
       /\ (/\ node \in HandlerNodes
           /\ node' # node
           /\ resolved.kind = CONFIRM_OUTPUT
           /\ ChangeRequest(resolved.reply)
           /\ missing_args(PendingCall.name, PendingCall.args) = {}
           /\ DOMAIN invalid_args(PendingCall.name, PendingCall.args) = {})
          => /\ Entered(last_run', "execute")
             /\ last_run'.raised = CONFIRM_OUTPUT
             /\ last_run'.tool_args = PendingCall.args
             /\ ~last_run'.saved
             /\ saves' = saves]_vars

\* The handler class the interrupt node n dispatches an interrupt kind to:
\* self.tool_interupt_handlers[type], looked up when the node runs.
Dispatch(n, kind) == tool_interupt_handlers[kind]

\* C27: the override given to the code-editor sub-flow's interrupt node applies
\* to that node only: every other constructed interrupt node dispatches every
\* kind to the default handler.
C27_OverrideStaysLocal ==
    \A n \in interrupt_nodes \ {tool_interrupt_node_name(CODE_EDITOR_TOOL)} :
        \A kind \in BaseToolInterruptType : Dispatch(n, kind) = DefaultHandlers[kind]

\* C28: whatever the interrupt kind and the reply, a resume merges the human's
\* mapping into the pending call's arguments key by key: a key of the mapping
\* takes the mapping's value (None included), any other argument keeps its
\* value, and no argument key is removed.
C28_MergeIsPerKeyOverwrite ==
    Suspended =>
        LET interrupt_data == sub_node_params[node]
            t == interrupt_data.tool_interrupt.tool
            args == interrupt_data.tool_message.tool_calls.args
        IN  \A reply \in Replies(t, RaisedType) :
              LET command == handle(RaisedType, reply, interrupt_data.tool_message,
                                    interrupt_data.tool_handler_node, next_id,
                                    execution_confirmed[t], output_confirmed[t])
                  merged == command.messages[1].tool_calls.args
              IN  (~command.raises /\ command.goto \in HandlerNodes) =>
                      /\ DOMAIN args \subseteq DOMAIN merged
                      /\ \A k \in DOMAIN reply.m : merged[k] = reply.m[k]
                      /\ \A k \in DOMAIN args \ DOMAIN reply.m : merged[k] = args[k]
                      /\ command.messages[1] = [interrupt_data.tool_message EXCEPT !.tool_calls.args = merged]

\* The human answered INVALID_ARGS with a mapping that set one argument to None
\* and the pending call carries it, the other arguments as before.
C28_Witness ==
    /\ node \in HandlerNodes
    /\ resolved.kind = INVALID_ARGS
    /\ resolved.outcome = "resume"
    /\ ~resolved.unchanged
    /\ PendingCall.name = CDS_FORECAST_NOTEBOOK_TOOL
    /\ PendingCall.args["forecast_variables"] = Null
    /\ PendingCall.args["area"] = "bbox3"
    /\ PendingCall.args["jupyter_notebook"] = "nb"

\* C29: whenever the Tool Handler is entered from the parent graph for a fresh
\* tool call, execution_confirmed and output_confirmed of the called tool have
\* the values the tool was constructed with, whatever became of an earlier
\* call to it.
C29_FreshCallStartsClean ==
    [][(node = CHATBOT /\ node' \in HandlerNodes)
          => /\ execution_confirmed'[current_call'.name]
                    = ConstructionFlags(current_call'.name).execution_confirmed
             /\ output_confirmed'[current_call'.name]
                    = ConstructionFlags(current_call'.name).output_confirmed]_vars

====
